---- MODULE Spec2Model ----
\* A model of the Zephyr port's socket module (ports/zephyr/modsocket.c):
\* the socket object (one native descriptor per handle), its stream
\* protocol, and getaddrinfo() built on the asynchronous DNS resolver.
EXTENDS Integers, Sequences, FiniteSets, TLC

\* ---------------------------------------------------------------- bounds
MaxFd == 1          \* native descriptors are 0..MaxFd
MaxLen == 1         \* length of the buffers passed to send / recv
MaxAddrs == 1       \* most addresses the resolver reports for one sub-query

\* ------------------------------------------------------- program constants
STATE_NEW == 0
STATE_CONNECTING == 1
STATE_CONNECTED == 2
STATE_PEER_CLOSED == 3
CLOSED == -1                 \* the closed sentinel of socket_obj_t.ctx
EBADF == 9
EIO == 5
EAGAIN == 11
MP_EINVAL == 22
AF_UNSPEC == 0
AF_INET == 1
AF_INET6 == 2
AF_PACKET == 3
SOCK_STREAM == 1
SOCK_DGRAM == 2
SOCK_RAW == 3
IPPROTO_TCP == 6
IPPROTO_UDP == 17
PROTO_AUTO == -1             \* int proto = -1
O_NONBLOCK == 16384
O_RDWR == 2                  \* the access mode bit every socket descriptor has
MP_STREAM_CLOSE == 4
MP_STREAM_FLUSH == 1         \* a request sock_ioctl does not implement
DNS_EAI_ALLDONE == -103
DNS_EAI_CANCELED == -101     \* the resolver's timeout status
DNS_EAI_NODATA == -5
DNS_EAI_INPROGRESS == -100
DNS_QUERY_TYPE_A == 1
DNS_QUERY_TYPE_AAAA == 28
EINVAL_NEG == -22            \* dns_get_addr_info() returning -EINVAL

\* The object slots: a socket and the one it accepts, or two sockets.
Handles == {1, 2}
FDs == 0..MaxFd
None == "None"

VARIABLES
    sockets,    \* [Handles -> socket_obj_t plus "alive"]
    nat_open,   \* the native layer: descriptors currently open
    nat_flags,  \* the native layer: descriptor flags (fcntl F_GETFL / F_SETFL)
    last,       \* the last socket operation: what it was given, did and reported
    closes,     \* per handle: native closes issued through it, counted from
                \* the first that succeeded
    pc,         \* mod_getaddrinfo: position of the calling thread
    family,     \* mod_getaddrinfo: local "family"
    loop_i,     \* mod_getaddrinfo: local "i"
    state,      \* mod_getaddrinfo: getaddrinfo_state_t state
    inflight,   \* the resolver: sub-queries issued and not yet completed
    glog,       \* events of the current getaddrinfo call, in order
    outcome,    \* what the current getaddrinfo call returned or raised
    ai,         \* mod_getaddrinfo, offload build: local "ai", a position in
                \* ai_list (0 is NULL)
    ai_list,    \* the linked list the native getaddrinfo() returned
    codec,      \* an address tuple on its way through parse_inet_addr()
                \* and format_inet_addr()
    uart_ringbuf,       \* zephyr_getchar.c: the ring buffer
    i_get,              \* index of the next character to read
    i_put,              \* index of the next slot to write
    i_size,             \* count of unread characters
    uart_sem,           \* count of the semaphore uart_sem
    mp_interrupt_char,  \* the interpreter's interrupt character, -1 for none
    getc,       \* zephyr_getchar_timeout: position of the reading thread and
                \* what its last call returned
    accepted,   \* the characters the hook stored, in order
    delivered,  \* the characters the reader was given, in order
    hook        \* the last call of console_irq_input_hook: its argument,
                \* the state before and after it, and what it scheduled

sockvars == <<sockets, nat_open, nat_flags, last, closes>>
gaivars == <<pc, family, loop_i, state, inflight, glog, outcome>>
offvars == <<ai, ai_list>>
codvars == <<codec>>
convars == <<uart_ringbuf, i_get, i_put, i_size, uart_sem, mp_interrupt_char,
             getc, accepted, delivered, hook>>
vars == <<sockets, nat_open, nat_flags, last, closes,
          pc, family, loop_i, state, inflight, glog, outcome,
          ai, ai_list, codec,
          uart_ringbuf, i_get, i_put, i_size, uart_sem, mp_interrupt_char,
          getc, accepted, delivered, hook>>

\* What the socket operations leave alone, and what the steps of the
\* semaphore build of getaddrinfo leave alone.
notsock == <<gaivars, offvars, codvars, convars>>
notgai == <<sockvars, offvars, codvars, convars>>

\* ------------------------------------------------------------ the handles
\* A slot of the object heap that holds no socket object.
FreeSock == [alive |-> FALSE, ctx |-> CLOSED, state |-> STATE_NEW, family |-> 0]

\* What an operation reports: the handle's descriptor afterwards, the
\* exception raised ("none" when it returns), the OSError code, the value
\* returned and the native calls it made, in order.
Returns(c, r, ncalls) ==
    [ctx |-> c, exc |-> "none", err |-> 0, ret |-> r, calls |-> ncalls]

Raises(c, kind, code, ncalls) ==
    [ctx |-> c, exc |-> kind, err |-> code, ret |-> <<>>, calls |-> ncalls]

\* ------------------------------------------------------- the native layer
\* The errno of a native call that fails on an open descriptor; one that is
\* not open gives EBADF.
FailErrnos == {EAGAIN}

\* The results the native layer can give a call on descriptor fd whose
\* successful return values are okvals: a descriptor that is not open gives
\* EBADF, an open one succeeds or fails with some errno.
NatCall(fd, okvals) ==
    IF fd \in nat_open
        THEN {[rc |-> v, errno |-> 0] : v \in okvals}
             \cup {[rc |-> -1, errno |-> e] : e \in FailErrnos}
        ELSE {[rc |-> -1, errno |-> EBADF]}

\* The descriptor the native layer gives out next: the lowest that is not
\* open.
FreeFd == {fd \in FDs \ nat_open : \A g \in FDs \ nat_open : fd <= g}

\* zsock_socket(): the lowest descriptor that is not open, or a failure.
NatSocket ==
    {[rc |-> fd, errno |-> 0] : fd \in FreeFd}
    \cup {[rc |-> -1, errno |-> e] : e \in FailErrnos}

\* x & ~b and x | b for a single flag bit b.
BitClear(x, b) == IF (x \div b) % 2 = 1 THEN x - b ELSE x
BitSet(x, b) == IF (x \div b) % 2 = 1 THEN x ELSE x + b

\* ---------------------------------------------------------- address codec
\* Text forms and the binary addresses net_addr_pton() gives them; a text
\* that is no address literal of the family is not in the table.
PtonTable ==
    [f \in {AF_INET, AF_INET6} |->
        IF f = AF_INET
            THEN [t \in {"1.2.3.4", "01.2.3.4", "10.0.0.1"} |->
                    IF t = "10.0.0.1" THEN <<10, 0, 0, 1>> ELSE <<1, 2, 3, 4>>]
            ELSE [t \in {"::1", "0::1", "fe80::2"} |->
                    IF t = "fe80::2" THEN <<65152, 0, 0, 0, 0, 0, 0, 2>>
                                     ELSE <<0, 0, 0, 0, 0, 0, 0, 1>>]]

\* net_addr_ntop(): the canonical text of a binary address.
net_addr_ntop(f, bin) ==
    IF f = AF_INET
        THEN (IF bin = <<10, 0, 0, 1>> THEN "10.0.0.1" ELSE "1.2.3.4")
        ELSE (IF bin = <<65152, 0, 0, 0, 0, 0, 0, 2>> THEN "fe80::2" ELSE "::1")

\* net_addr_pton(): 0 and the binary address, or -EINVAL.
net_addr_pton(f, text) ==
    IF f \in DOMAIN PtonTable /\ text \in DOMAIN PtonTable[f]
        THEN [rc |-> 0, bin |-> PtonTable[f][text]]
        ELSE [rc |-> -MP_EINVAL, bin |-> <<>>]

htons(p) == LET q == p % 65536 IN (q % 256) * 256 + (q \div 256)

\* parse_inet_addr(): the tuple's arity must fit the handle's family, the
\* text must convert; scope is what the caller's uninitialised record held.
parse_inet_addr(s, addr, scope) ==
    LET n == IF s.family = AF_INET6 THEN 4 ELSE 2
        r == net_addr_pton(s.family, addr[1])
    IN  IF Len(addr) # n THEN [exc |-> "ValueError", err |-> 0, sockaddr |-> <<>>]
        ELSE IF r.rc < 0 THEN [exc |-> "OSError", err |-> -r.rc, sockaddr |-> <<>>]
        ELSE [exc |-> "none", err |-> 0,
              sockaddr |-> [sa_family |-> s.family, sin_addr |-> r.bin,
                            sin_port |-> htons(addr[2]), sin6_scope_id |-> scope]]

\* format_inet_addr() as it would be if it took the port from the record
\* (ntohs is the same exchange of bytes as htons).
format_inet_addr_record_port(addr, port) ==
    LET text == net_addr_ntop(addr.sa_family, addr.sin_addr)
    IN  IF addr.sa_family = AF_INET
            THEN <<text, htons(addr.sin_port)>>
            ELSE <<text, htons(addr.sin_port), 0, addr.sin6_scope_id>>

\* format_inet_addr(): 2-tuple for IPv4, 4-tuple otherwise; the port is the
\* caller's value, not the record's.
format_inet_addr(addr, port) ==
    LET text == net_addr_ntop(addr.sa_family, addr.sin_addr)
    IN  IF addr.sa_family = AF_INET
            THEN <<text, port>>
            ELSE <<text, port, 0, addr.sin6_scope_id>>

\* ------------------------------------------------------ socket operations
\* socket_check_closed(): TRUE when it raises OSError(EBADF).
socket_check_closed(s) == s.ctx = CLOSED

\* socket_new() as it would be if the object started as connected.
socket_new_connected(c, fam) ==
    [alive |-> TRUE, ctx |-> c, state |-> STATE_CONNECTED, family |-> fam]

\* socket_new(): a fresh object in STATE_NEW; ctx and family are for the
\* caller to fill in (fam is what family holds until then).
socket_new(c, fam) ==
    [alive |-> TRUE, ctx |-> c, state |-> STATE_NEW, family |-> fam]

\* socket_make_new() as it would be if it chose the protocol by the type
\* whatever protocol was given.
socket_make_new_ignores_proto(fam, socktype, proto, res) ==
    LET p == IF socktype # SOCK_STREAM THEN IPPROTO_UDP ELSE IPPROTO_TCP
        ncalls == << <<"zsock_socket", fam, socktype, p>> >>
    IN  IF res.rc = -1
            THEN Raises(res.rc, "OSError", res.errno, ncalls)
            ELSE Returns(res.rc, <<>>, ncalls)

\* socket_make_new(): proto -1 (omitted) is TCP for SOCK_STREAM, else UDP.
socket_make_new(fam, socktype, proto, res) ==
    LET p == IF proto = PROTO_AUTO
                THEN (IF socktype # SOCK_STREAM THEN IPPROTO_UDP ELSE IPPROTO_TCP)
                ELSE proto
        ncalls == << <<"zsock_socket", fam, socktype, p>> >>
    IN  IF res.rc = -1
            THEN Raises(res.rc, "OSError", res.errno, ncalls)
            ELSE Returns(res.rc, <<>>, ncalls)

\* socket_addr_op() as it would be if a failed native call dropped the
\* descriptor.
socket_addr_op_drops_ctx(name, s, addr, scope, res) ==
    IF s.ctx = CLOSED THEN Raises(s.ctx, "OSError", EBADF, <<>>)
    ELSE LET p == parse_inet_addr(s, addr, scope)
         IN  IF p.exc # "none" THEN Raises(s.ctx, p.exc, p.err, <<>>)
             ELSE IF res.rc = -1
                 THEN Raises(CLOSED, "OSError", res.errno, << <<name, s.ctx>> >>)
                 ELSE Returns(s.ctx, <<None>>, << <<name, s.ctx>> >>)

\* socket_bind() / socket_connect(): name is the native call.
socket_addr_op(name, s, addr, scope, res) ==
    IF socket_check_closed(s) THEN Raises(s.ctx, "OSError", EBADF, <<>>)
    ELSE LET p == parse_inet_addr(s, addr, scope)
         IN  IF p.exc # "none" THEN Raises(s.ctx, p.exc, p.err, <<>>)
             ELSE IF res.rc = -1
                 THEN Raises(s.ctx, "OSError", res.errno, << <<name, s.ctx>> >>)
                 ELSE Returns(s.ctx, <<None>>, << <<name, s.ctx>> >>)

socket_bind(s, addr, scope, res) == socket_addr_op("zsock_bind", s, addr, scope, res)

socket_connect(s, addr, scope, res) == socket_addr_op("zsock_connect", s, addr, scope, res)

MICROPY_PY_SOCKET_LISTEN_BACKLOG_DEFAULT == 2

\* socket_listen(): a negative backlog becomes 0.
socket_listen(s, n_args, backlog_in, res) ==
    LET backlog == IF n_args > 1
                      THEN (IF backlog_in < 0 THEN 0 ELSE backlog_in)
                      ELSE MICROPY_PY_SOCKET_LISTEN_BACKLOG_DEFAULT
    IN  IF socket_check_closed(s) THEN Raises(s.ctx, "OSError", EBADF, <<>>)
        ELSE IF res.rc = -1
            THEN Raises(s.ctx, "OSError", res.errno, << <<"zsock_listen", s.ctx, backlog>> >>)
            ELSE Returns(s.ctx, <<None>>, << <<"zsock_listen", s.ctx, backlog>> >>)

\* socket_accept() as it would be if the new object took the listening
\* handle's descriptor.
socket_accept_reuses_ctx(s, res) ==
    IF s.ctx = CLOSED THEN Raises(s.ctx, "OSError", EBADF, <<>>)
    ELSE Returns(s.ctx, <<s.ctx, None>>, << <<"zsock_accept", s.ctx>> >>)

\* socket_accept(): the result of zsock_accept() goes into the new object
\* unchecked; ret holds the new object's descriptor.
socket_accept(s, res) ==
    IF socket_check_closed(s) THEN Raises(s.ctx, "OSError", EBADF, <<>>)
    ELSE Returns(s.ctx, <<res.rc, None>>, << <<"zsock_accept", s.ctx>> >>)

MP_STREAM_ERROR == -1

\* sock_write() as it would be if it reported one fixed error code.
sock_write_fixed_errcode(s, size, res) ==
    IF s.ctx = CLOSED
        THEN [ret |-> MP_STREAM_ERROR, errcode |-> EBADF, calls |-> <<>>]
    ELSE IF res.rc = -1
        THEN [ret |-> MP_STREAM_ERROR, errcode |-> EIO,
              calls |-> << <<"zsock_send", s.ctx, size>> >>]
        ELSE [ret |-> res.rc, errcode |-> 0,
              calls |-> << <<"zsock_send", s.ctx, size>> >>]

\* sock_write(): the stream protocol's write; ret is the count or
\* MP_STREAM_ERROR, errcode the error.
sock_write(s, size, res) ==
    IF s.ctx = CLOSED
        THEN [ret |-> MP_STREAM_ERROR, errcode |-> EBADF, calls |-> <<>>]
    ELSE IF res.rc = -1
        THEN [ret |-> MP_STREAM_ERROR, errcode |-> res.errno,
              calls |-> << <<"zsock_send", s.ctx, size>> >>]
        ELSE [ret |-> res.rc, errcode |-> 0,
              calls |-> << <<"zsock_send", s.ctx, size>> >>]

\* socket_send()
socket_send(s, size, res) ==
    LET w == sock_write(s, size, res)
    IN  IF w.ret = MP_STREAM_ERROR
            THEN Raises(s.ctx, "OSError", w.errcode, w.calls)
            ELSE Returns(s.ctx, <<w.ret>>, w.calls)

\* sock_read(): the stream protocol's read.
sock_read(s, max_len, res) ==
    IF s.ctx = CLOSED
        THEN [ret |-> MP_STREAM_ERROR, errcode |-> EBADF, calls |-> <<>>]
    ELSE IF res.rc = -1
        THEN [ret |-> MP_STREAM_ERROR, errcode |-> res.errno,
              calls |-> << <<"zsock_recv", s.ctx, max_len>> >>]
        ELSE [ret |-> res.rc, errcode |-> 0,
              calls |-> << <<"zsock_recv", s.ctx, max_len>> >>]

\* socket_recv() as it would be if a read count of 0 were an error.
socket_recv_eof_raises(s, max_len, res) ==
    LET r == sock_read(s, max_len, res)
    IN  IF r.ret = MP_STREAM_ERROR
            THEN Raises(s.ctx, "OSError", r.errcode, r.calls)
        ELSE IF r.ret = 0
            THEN Raises(s.ctx, "OSError", EIO, r.calls)
            ELSE Returns(s.ctx, << [k \in 1..r.ret |-> "b"] >>, r.calls)

\* socket_recv(): the bytes read, the empty bytes object when none were.
socket_recv(s, max_len, res) ==
    LET r == sock_read(s, max_len, res)
    IN  IF r.ret = MP_STREAM_ERROR
            THEN Raises(s.ctx, "OSError", r.errcode, r.calls)
        ELSE IF r.ret = 0
            THEN Returns(s.ctx, << <<>> >>, r.calls)
            ELSE Returns(s.ctx, << [k \in 1..r.ret |-> "b"] >>, r.calls)

\* socket_setblocking() as it would be if it wrote the non-blocking bit
\* alone instead of the flags it read with the bit changed.
socket_setblocking_overwrites(s, blocking, get, set) ==
    LET newflags == IF blocking THEN 0 ELSE O_NONBLOCK
        c1 == <<"zsock_fcntl", s.ctx, "F_GETFL", 0>>
        c2 == <<"zsock_fcntl", s.ctx, "F_SETFL", newflags>>
    IN  IF get.rc = -1 THEN Raises(s.ctx, "OSError", -get.errno, <<c1>>)
        ELSE IF set.rc = -1 THEN Raises(s.ctx, "OSError", -set.errno, <<c1, c2>>)
        ELSE Returns(s.ctx, <<None>>, <<c1, c2>>)

\* socket_setblocking(): F_GETFL, then F_SETFL with O_NONBLOCK cleared or
\* set; a failure raises OSError(-errno). get and set are the results of
\* the two native calls.
socket_setblocking(s, blocking, get, set) ==
    LET newflags == IF blocking THEN BitClear(get.rc, O_NONBLOCK)
                                ELSE BitSet(get.rc, O_NONBLOCK)
        c1 == <<"zsock_fcntl", s.ctx, "F_GETFL", 0>>
        c2 == <<"zsock_fcntl", s.ctx, "F_SETFL", newflags>>
    IN  IF get.rc = -1 THEN Raises(s.ctx, "OSError", -get.errno, <<c1>>)
        ELSE IF set.rc = -1 THEN Raises(s.ctx, "OSError", -set.errno, <<c1, c2>>)
        ELSE Returns(s.ctx, <<None>>, <<c1, c2>>)

\* socket_makefile(): the object itself.
socket_makefile(h) == h

\* sock_ioctl() as it would be if the handle were not marked closed.
sock_ioctl_keeps_ctx(s, request, res) ==
    IF request = MP_STREAM_CLOSE
        THEN IF s.ctx # CLOSED
                THEN IF res.rc = -1
                        THEN Raises(s.ctx, "OSError", res.errno, << <<"zsock_close", s.ctx>> >>)
                        ELSE Returns(s.ctx, <<0>>, << <<"zsock_close", s.ctx>> >>)
                ELSE Returns(s.ctx, <<0>>, <<>>)
        ELSE Raises(s.ctx, "OSError", MP_EINVAL, <<>>)

\* sock_ioctl() as it would be if the handle were marked closed before the
\* result of the native close is looked at.
sock_ioctl_marks_first(s, request, res) ==
    IF request = MP_STREAM_CLOSE
        THEN IF s.ctx # CLOSED
                THEN IF res.rc = -1
                        THEN Raises(CLOSED, "OSError", res.errno, << <<"zsock_close", s.ctx>> >>)
                        ELSE Returns(CLOSED, <<0>>, << <<"zsock_close", s.ctx>> >>)
                ELSE Returns(s.ctx, <<0>>, <<>>)
        ELSE Raises(s.ctx, "OSError", MP_EINVAL, <<>>)

\* sock_ioctl(): MP_STREAM_CLOSE closes a live descriptor and marks the
\* handle closed when the native close succeeded; RAISE_SOCK_ERRNO raises
\* when it failed. Any other request is MP_EINVAL.
sock_ioctl(s, request, res) ==
    IF request = MP_STREAM_CLOSE
        THEN IF s.ctx # CLOSED
                THEN IF res.rc = -1
                        THEN Raises(s.ctx, "OSError", res.errno, << <<"zsock_close", s.ctx>> >>)
                        ELSE Returns(CLOSED, <<0>>, << <<"zsock_close", s.ctx>> >>)
                ELSE Returns(s.ctx, <<0>>, <<>>)
        ELSE Raises(s.ctx, "OSError", MP_EINVAL, <<>>)

\* --------------------------------------------------- the socket actions
FlagsOf(fd) == IF fd \in FDs THEN nat_flags[fd] ELSE 0

Alive == {h \in Handles : sockets[h].alive}

\* The slot a new object goes to.
NewSlot == CHOOSE h \in Handles : ~sockets[h].alive /\ \A g \in Handles : g < h => sockets[g].alive

HasSlot == \E h \in Handles : ~sockets[h].alive

\* The record of an operation on handle h (h2: the handle it created): the
\* object before it, what it reported, and the results nres the native
\* layer gave the calls it made.
Report(op, h, h2, out, nres) ==
    [op |-> op, h |-> h, h2 |-> h2,
     pre |-> IF h \in Handles THEN sockets[h] ELSE FreeSock,
     ctx |-> out.ctx, exc |-> out.exc, err |-> out.err, ret |-> out.ret,
     calls |-> out.calls, nat |-> SubSeq(nres, 1, Len(out.calls))]

AddrTuples == {<<"1.2.3.4", 80>>, <<"nohost", 80>>, <<"::1", 80, 0, 0>>}

\* socket.socket([family[, type[, proto]]])
SocketMakeNew ==
    \E fam \in {AF_INET, AF_INET6}, socktype \in {SOCK_STREAM, SOCK_DGRAM, SOCK_RAW},
       proto \in {PROTO_AUTO, IPPROTO_UDP},
       res \in NatSocket :
        /\ HasSlot
        /\ LET out == socket_make_new(fam, socktype, proto, res)
               h == NewSlot
           IN  /\ last' = Report("socket", 0, IF out.exc = "none" THEN h ELSE 0, out, <<res>>)
                            @@ [args |-> <<fam, socktype, proto>>]
               /\ IF out.exc = "none"
                    THEN /\ sockets' = [sockets EXCEPT ![h] = socket_new(out.ctx, fam)]
                         /\ nat_open' = nat_open \cup {res.rc}
                         /\ nat_flags' = [nat_flags EXCEPT ![res.rc] = O_RDWR]
                    ELSE UNCHANGED <<sockets, nat_open, nat_flags>>
        /\ UNCHANGED <<closes, notsock>>

\* The native results that can follow parse_inet_addr(): none matters
\* when it raised.
AddrResults(h, addr) ==
    IF parse_inet_addr(sockets[h], addr, 0).exc = "none"
        THEN NatCall(sockets[h].ctx, {0})
        ELSE {[rc |-> -1, errno |-> EBADF]}

\* s.bind(addr)
Bind(h) ==
    \E addr \in AddrTuples : \E res \in AddrResults(h, addr) :
        /\ LET out == socket_bind(sockets[h], addr, 0, res)
           IN  /\ last' = Report("bind", h, 0, out, <<res>>)
               /\ sockets' = [sockets EXCEPT ![h].ctx = out.ctx]
        /\ UNCHANGED <<nat_open, nat_flags, closes, notsock>>

\* s.connect(addr)
Connect(h) ==
    \E addr \in AddrTuples : \E res \in AddrResults(h, addr) :
        /\ LET out == socket_connect(sockets[h], addr, 0, res)
           IN  /\ last' = Report("connect", h, 0, out, <<res>>)
               /\ sockets' = [sockets EXCEPT ![h].ctx = out.ctx]
        /\ UNCHANGED <<nat_open, nat_flags, closes, notsock>>

\* s.listen([backlog])
Listen(h) ==
    \E n_args \in {1, 2}, backlog \in {-1, 1}, res \in NatCall(sockets[h].ctx, {0}) :
        /\ n_args = 1 => backlog = 1
        /\ last' = Report("listen", h, 0,
                        socket_listen(sockets[h], n_args, backlog, res), <<res>>)
        /\ UNCHANGED <<sockets, nat_open, nat_flags, closes, notsock>>

\* s.accept(): the new object's family is never assigned; it is what the
\* allocator left there, which clears the memory it hands out.
Accept(h) ==
    \E res \in NatCall(sockets[h].ctx, FreeFd), fam \in {AF_UNSPEC} :
        /\ HasSlot
        /\ LET out == socket_accept(sockets[h], res)
               h2 == NewSlot
           IN  IF out.exc = "none"
                 THEN /\ last' = Report("accept", h, h2, out, <<res>>)
                      /\ sockets' = [sockets EXCEPT ![h2] = socket_new(out.ret[1], fam)]
                      /\ nat_open' = IF res.rc = -1 THEN nat_open ELSE nat_open \cup {res.rc}
                      /\ nat_flags' = IF res.rc = -1 THEN nat_flags
                                      ELSE [nat_flags EXCEPT ![res.rc] = O_RDWR]
                 ELSE /\ last' = Report("accept", h, 0, out, <<res>>)
                      /\ UNCHANGED <<sockets, nat_open, nat_flags>>
        /\ UNCHANGED <<closes, notsock>>

\* s.send(buf)
Send(h) ==
    \E size \in {MaxLen} : \E res \in NatCall(sockets[h].ctx, 0..size) :
        /\ last' = Report("send", h, 0, socket_send(sockets[h], size, res), <<res>>)
        /\ UNCHANGED <<sockets, nat_open, nat_flags, closes, notsock>>

\* s.recv(n)
Recv(h) ==
    \E max_len \in {MaxLen} : \E res \in NatCall(sockets[h].ctx, 0..max_len) :
        /\ last' = Report("recv", h, 0, socket_recv(sockets[h], max_len, res), <<res>>)
        /\ UNCHANGED <<sockets, nat_open, nat_flags, closes, notsock>>

\* s.write(buf): the stream layer calls sock_write(); MP_STREAM_ERROR with
\* *errcode is recorded as OSError with that code.
StreamWrite(h) ==
    \E size \in {MaxLen} : \E res \in NatCall(sockets[h].ctx, 0..size) :
        /\ LET w == sock_write(sockets[h], size, res)
           IN  last' = Report("write", h, 0,
                    IF w.ret = MP_STREAM_ERROR
                        THEN Raises(sockets[h].ctx, "OSError", w.errcode, w.calls)
                        ELSE Returns(sockets[h].ctx, <<w.ret>>, w.calls),
                    <<res>>)
        /\ UNCHANGED <<sockets, nat_open, nat_flags, closes, notsock>>

\* s.read(n): the stream layer calls sock_read() likewise.
StreamRead(h) ==
    \E max_len \in {MaxLen} : \E res \in NatCall(sockets[h].ctx, 0..max_len) :
        /\ LET r == sock_read(sockets[h], max_len, res)
           IN  last' = Report("read", h, 0,
                    IF r.ret = MP_STREAM_ERROR
                        THEN Raises(sockets[h].ctx, "OSError", r.errcode, r.calls)
                        ELSE Returns(sockets[h].ctx, <<r.ret>>, r.calls),
                    <<res>>)
        /\ UNCHANGED <<sockets, nat_open, nat_flags, closes, notsock>>

\* s.setblocking(flag)
SetBlocking(h) ==
    \E blocking \in BOOLEAN, get \in NatCall(sockets[h].ctx, {FlagsOf(sockets[h].ctx)}) :
      \E set \in IF get.rc = -1 THEN {get} ELSE NatCall(sockets[h].ctx, {0}) :
        /\ LET out == socket_setblocking(sockets[h], blocking, get, set)
           IN  /\ last' = Report("setblocking", h, 0, out, <<get, set>>)
                            @@ [flag |-> blocking]
               /\ nat_flags' = IF out.exc = "none"
                                 THEN [nat_flags EXCEPT ![sockets[h].ctx] = out.calls[2][4]]
                                 ELSE nat_flags
        /\ UNCHANGED <<sockets, nat_open, closes, notsock>>

\* s.makefile(...)
Makefile(h) ==
    /\ last' = Report("makefile", h, 0,
                      Returns(sockets[h].ctx, <<socket_makefile(h)>>, <<>>), <<>>)
    /\ UNCHANGED <<sockets, nat_open, nat_flags, closes, notsock>>

\* The effect of a stream ioctl on handle h: op names who asked for it.
\* A zsock_close() that fails on an open descriptor may or may not have
\* released it: the native layer, not this code, decides.
DoIoctl(op, h, request, res, free) ==
    LET out == sock_ioctl(sockets[h], request, res)
        closed == out.calls # <<>> /\ out.exc = "none"
        failed == out.calls # <<>> /\ res.rc = -1 /\ sockets[h].ctx \in nat_open
    IN  \E released \in (IF failed THEN BOOLEAN ELSE {closed}) :
        /\ last' = Report(op, h, 0, out, <<res>>)
        /\ sockets' = [sockets EXCEPT ![h] =
                          IF free THEN FreeSock ELSE [sockets[h] EXCEPT !.ctx = out.ctx]]
        /\ nat_open' = IF released THEN nat_open \ {sockets[h].ctx} ELSE nat_open
        /\ nat_flags' = IF released THEN [nat_flags EXCEPT ![sockets[h].ctx] = 0]
                                    ELSE nat_flags
        /\ closes' = [closes EXCEPT ![h] =
                          IF free THEN 0
                          ELSE IF out.calls # <<>> /\ (closed \/ @ > 0) THEN @ + 1 ELSE @]
        /\ UNCHANGED notsock

\* s.close(): mp_stream_close_obj, the MP_STREAM_CLOSE request.
Close(h) ==
    \E res \in NatCall(sockets[h].ctx, {0}) :
        DoIoctl("close", h, MP_STREAM_CLOSE, res, FALSE)

\* Any stream ioctl request made by the stream layer.
StreamIoctl(h) ==
    \E request \in {MP_STREAM_CLOSE, MP_STREAM_FLUSH}, res \in NatCall(sockets[h].ctx, {0}) :
        DoIoctl(IF request = MP_STREAM_CLOSE THEN "ioctl_close" ELSE "ioctl_other",
                h, request, res, FALSE)

\* __del__: the collector finalises an unreachable object with the close
\* request, ignores what it raises and frees the object.
Finalise(h) ==
    \E res \in NatCall(sockets[h].ctx, {0}) :
        DoIoctl("finalise", h, MP_STREAM_CLOSE, res, TRUE)

InitSock ==
    /\ sockets = [h \in Handles |-> FreeSock]
    /\ nat_open = {}
    /\ nat_flags = [fd \in FDs |-> 0]
    /\ closes = [h \in Handles |-> 0]
    /\ last = Report("none", 0, 0, Returns(CLOSED, <<>>, <<>>), <<>>)

NextSock ==
    \/ SocketMakeNew
    \/ \E h \in Alive : Bind(h)
    \/ \E h \in Alive : Connect(h)
    \/ \E h \in Alive : Listen(h)
    \/ \E h \in Alive : Accept(h)
    \/ \E h \in Alive : Send(h)
    \/ \E h \in Alive : Recv(h)
    \/ \E h \in Alive : StreamWrite(h)
    \/ \E h \in Alive : StreamRead(h)
    \/ \E h \in Alive : SetBlocking(h)
    \/ \E h \in Alive : Makefile(h)
    \/ \E h \in Alive : Close(h)
    \/ \E h \in Alive : StreamIoctl(h)
    \/ \E h \in Alive : Finalise(h)

\* ------------------------------------------------------------ getaddrinfo
\* The semaphore's limit, UINT_MAX in the source; TLC's largest integer
\* stands for it (no count of the model comes near either).
SEM_LIMIT == 2147483647

\* k_sem_give(): the count goes up by one, up to the limit.
k_sem_give(count) == IF count < SEM_LIMIT THEN count + 1 ELSE count

\* dns_resolve_cb() as it would be if every call gave the semaphore.
dns_resolve_cb_gives_always(st, status, info) ==
    IF info = <<>>
        THEN [st EXCEPT !.status = IF status = DNS_EAI_ALLDONE THEN 0 ELSE status,
                        !.sem = k_sem_give(st.sem)]
        ELSE [st EXCEPT !.sem = k_sem_give(st.sem),
                        !.result =
                 Append(st.result,
                        <<info[1].ai_family, SOCK_STREAM, IPPROTO_TCP, "",
                          format_inet_addr(info[1].ai_addr, st.port)>>)]

\* dns_resolve_cb() as it would be if only the all-done completion gave the
\* semaphore.
dns_resolve_cb_gives_on_success(st, status, info) ==
    IF info = <<>>
        THEN [st EXCEPT !.status = IF status = DNS_EAI_ALLDONE THEN 0 ELSE status,
                        !.sem = IF status = DNS_EAI_ALLDONE THEN k_sem_give(st.sem)
                                                            ELSE st.sem]
        ELSE [st EXCEPT !.result =
                 Append(st.result,
                        <<info[1].ai_family, SOCK_STREAM, IPPROTO_TCP, "",
                          format_inet_addr(info[1].ai_addr, st.port)>>)]

\* dns_resolve_cb() as it would be if a completion kept the first failure
\* status instead of storing its own.
dns_resolve_cb_keeps_error(st, status, info) ==
    IF info = <<>>
        THEN [st EXCEPT !.status = IF st.status \in {DNS_EAI_CANCELED, DNS_EAI_NODATA}
                                      THEN st.status
                                      ELSE IF status = DNS_EAI_ALLDONE THEN 0 ELSE status,
                        !.sem = k_sem_give(st.sem)]
        ELSE [st EXCEPT !.result =
                 Append(st.result,
                        <<info[1].ai_family, SOCK_STREAM, IPPROTO_TCP, "",
                          format_inet_addr(info[1].ai_addr, st.port)>>)]

\* dns_resolve_cb(): st is *user_data; info is <<>> for NULL, else <<record>>.
\* The completion call stores the status (DNS_EAI_ALLDONE as 0) and gives
\* the semaphore; a call with an address appends its 5-tuple.
dns_resolve_cb(st, status, info) ==
    IF info = <<>>
        THEN [st EXCEPT !.status = IF status = DNS_EAI_ALLDONE THEN 0 ELSE status,
                        !.sem = k_sem_give(st.sem)]
        ELSE [st EXCEPT !.result =
                 Append(st.result,
                        <<info[1].ai_family, SOCK_STREAM, IPPROTO_TCP, "",
                          format_inet_addr(info[1].ai_addr, st.port)>>)]

\* query_type() with the two record types exchanged.
query_type_swapped(fam) == IF fam # AF_INET6 THEN DNS_QUERY_TYPE_AAAA ELSE DNS_QUERY_TYPE_A

\* The record type of the sub-query for the current value of "family".
query_type(fam) == IF fam # AF_INET6 THEN DNS_QUERY_TYPE_A ELSE DNS_QUERY_TYPE_AAAA

\* RAISE_ERRNO() testing for a positive code.
RAISE_ERRNO_positive(x) == x > 0

\* RAISE_ERRNO(x): TRUE when it raises OSError(-x).
RAISE_ERRNO(x) == x < 0

\* The test after the loop without the length.
gai_raises_on_status(st) == st.status # 0

\* The test after the loop: TRUE when mod_getaddrinfo raises OSError(status).
gai_raises(st) == st.status # 0 /\ Len(st.result) = 0

\* A take that does not wait.
k_sem_take_no_wait(st) == TRUE

\* k_sem_take(&state.sem, K_FOREVER) can return.
k_sem_take_ready(st) == st.sem > 0

\* The statement after the take without the break.
loop_breaks_never(fam) == FALSE

\* The statement after the take: leave the loop unless family is 0.
loop_breaks(fam) == fam # 0

NoOutcome == [kind |-> "none", err |-> 0, result |-> <<>>]

GaiHints == {AF_UNSPEC, AF_INET, AF_INET6, AF_PACKET}
GaiPorts == {80}
IssueResults == {0, EINVAL_NEG}
GarbageStatus == {0, DNS_EAI_NODATA}
CompletionStatus == {DNS_EAI_ALLDONE, DNS_EAI_CANCELED, DNS_EAI_NODATA}

\* What the resolver reports for a sub-query of the given type.
ResolverInfo(type) ==
    IF type = DNS_QUERY_TYPE_A
        THEN [ai_family |-> AF_INET,
              ai_addr |-> [sa_family |-> AF_INET, sin_addr |-> <<1, 2, 3, 4>>,
                           sin_port |-> 0, sin6_scope_id |-> 0]]
        ELSE [ai_family |-> AF_INET6,
              ai_addr |-> [sa_family |-> AF_INET6,
                           sin_addr |-> <<0, 0, 0, 0, 0, 0, 0, 1>>,
                           sin_port |-> 0, sin6_scope_id |-> 0]]

\* Sub-queries issued so far by the current call.
Issued == SelectSeq(glog, LAMBDA e : e[1] = "issue" /\ e[3] = 0)

\* getaddrinfo(host, port[, family]): the statements before the loop. The
\* status field of the new state is not initialised.
GaiCall ==
    \E n_args \in {2, 3}, hint \in GaiHints, port \in GaiPorts, junk \in GarbageStatus :
        /\ pc = "idle"
        /\ n_args = 2 => hint = AF_INET
        /\ family' = IF n_args > 2 THEN hint ELSE AF_INET
        /\ state' = [result |-> <<>>, sem |-> 0, port |-> port, status |-> junk]
        /\ loop_i' = 2
        /\ pc' = "loop"
        /\ glog' = << <<"call", n_args, hint, port>> >>
        /\ outcome' = NoOutcome
        /\ UNCHANGED <<inflight, notgai>>

\* One pass of the loop up to the take: the loop test i-- (a pass follows
\* only while i is not 0), then dns_get_addr_info() under RAISE_ERRNO. ret
\* is what the native call returns. The test never finds i = 0: the second
\* pass always leaves by the break.
GaiIssue ==
    \E ret \in IssueResults :
        /\ pc = "loop"
        /\ loop_i # 0
        /\ loop_i' = loop_i - 1
        /\ LET type == query_type(family)
           IN  /\ glog' = Append(glog, <<"issue", type, ret, state.sem>>)
               /\ IF RAISE_ERRNO(ret)
                    THEN /\ pc' = "done"
                         /\ outcome' = [kind |-> "raised", err |-> -ret, result |-> <<>>]
                         /\ UNCHANGED inflight
                    ELSE /\ pc' = "wait"
                         /\ inflight' = inflight \cup
                                {[id |-> Len(Issued) + 1, type |-> type, sent |-> 0]}
                         /\ UNCHANGED outcome
        /\ UNCHANGED <<family, state, notgai>>

\* k_sem_take(&state.sem, K_FOREVER) returns; then the rest of the pass.
GaiTake ==
    /\ pc = "wait"
    /\ k_sem_take_ready(state)
    /\ state' = [state EXCEPT !.sem = @ - 1]
    /\ glog' = Append(glog, <<"take">>)
    /\ IF loop_breaks(family)
         THEN pc' = "check" /\ UNCHANGED family
         ELSE pc' = "loop" /\ family' = AF_INET6
    /\ UNCHANGED <<loop_i, inflight, outcome, notgai>>

\* After the loop: raise only if there is nothing to return.
GaiFinish ==
    /\ pc = "check"
    /\ pc' = "done"
    /\ outcome' = IF gai_raises(state)
                    THEN [kind |-> "raised", err |-> state.status, result |-> <<>>]
                    ELSE [kind |-> "returned", err |-> 0, result |-> state.result]
    /\ UNCHANGED <<family, loop_i, state, inflight, glog, notgai>>

\* The call is over and its state is gone.
GaiDiscard ==
    /\ pc = "done"
    /\ pc' = "idle"
    /\ family' = 0
    /\ loop_i' = 0
    /\ state' = [result |-> <<>>, sem |-> 0, port |-> 0, status |-> 0]
    /\ glog' = <<>>
    /\ outcome' = NoOutcome
    /\ UNCHANGED <<inflight, notgai>>

\* The resolver's thread reports an address of a pending sub-query.
ResolverAddr ==
    \E q \in inflight :
        /\ q.sent < MaxAddrs
        /\ state' = dns_resolve_cb(state, DNS_EAI_INPROGRESS, <<ResolverInfo(q.type)>>)
        /\ inflight' = (inflight \ {q}) \cup {[q EXCEPT !.sent = @ + 1]}
        /\ glog' = Append(glog, <<"cb_addr", q.id, state.sem, state'.sem>>)
        /\ UNCHANGED <<pc, family, loop_i, outcome, notgai>>

\* The resolver's thread completes a pending sub-query (all done, an
\* error, or the timeout): the one callback with a null address.
ResolverDone ==
    \E q \in inflight, status \in CompletionStatus :
        /\ state' = dns_resolve_cb(state, status, <<>>)
        /\ inflight' = inflight \ {q}
        /\ glog' = Append(glog, <<"cb_done", q.id, state.sem, state'.sem, status, q.sent>>)
        /\ UNCHANGED <<pc, family, loop_i, outcome, notgai>>

InitGai ==
    /\ pc = "idle"
    /\ family = 0
    /\ loop_i = 0
    /\ state = [result |-> <<>>, sem |-> 0, port |-> 0, status |-> 0]
    /\ inflight = {}
    /\ glog = <<>>
    /\ outcome = NoOutcome

GaiStep == GaiIssue \/ GaiTake \/ GaiFinish

NextGai ==
    \/ GaiCall
    \/ GaiIssue
    \/ GaiTake
    \/ GaiFinish
    \/ GaiDiscard
    \/ ResolverAddr
    \/ ResolverDone

\* ------------------------------------------- getaddrinfo, offload build
\* With CONFIG_NET_SOCKETS_OFFLOAD the same function calls the native
\* getaddrinfo() and walks the list it returns; pc, family, state, glog
\* and outcome are used as in the other build.
MaxNodes == 2       \* longest list the native getaddrinfo() returns
MaxHeap == 3        \* 5-tuples the heap has room for before MemoryError

\* A node of the list: struct addrinfo without ai_next.
AiNode(fam, socktype, proto, bin) ==
    [ai_socktype |-> socktype, ai_protocol |-> proto,
     ai_addr |-> [sa_family |-> fam, sin_addr |-> bin,
                  sin_port |-> 0, sin6_scope_id |-> 0]]

\* The nodes the native resolver gives for hints.ai_family = fam.
AiNodes(fam) ==
    {n \in {AiNode(AF_INET, SOCK_STREAM, IPPROTO_TCP, <<1, 2, 3, 4>>),
            AiNode(AF_INET, SOCK_DGRAM, IPPROTO_UDP, <<10, 0, 0, 1>>),
            AiNode(AF_INET6, SOCK_STREAM, IPPROTO_TCP, <<0, 0, 0, 0, 0, 0, 0, 1>>)} :
        fam = AF_UNSPEC \/ n.ai_addr.sa_family = fam}

\* The finite non-empty lists of such nodes.
AiLists(fam) ==
    UNION {[1..n -> AiNodes(fam)] : n \in 1..MaxNodes}

\* ai->ai_next for the node at position k of list l (0 is NULL).
ai_next(l, k) == IF k < Len(l) THEN k + 1 ELSE 0

\* The 5-tuple the loop body builds from node n.
ai_record(n, port) ==
    <<n.ai_addr.sa_family, n.ai_socktype, n.ai_protocol, "",
      format_inet_addr(n.ai_addr, port)>>

\* The statements before the native call.
OffCall ==
    \E n_args \in {2, 3}, hint \in GaiHints, port \in GaiPorts, junk \in GarbageStatus :
        /\ pc = "idle"
        /\ n_args = 2 => hint = AF_INET
        /\ family' = IF n_args > 2 THEN hint ELSE AF_INET
        /\ state' = [result |-> <<>>, sem |-> 0, port |-> port, status |-> junk]
        /\ pc' = "resolve"
        /\ glog' = << <<"call", n_args, hint, port>> >>
        /\ outcome' = NoOutcome
        /\ UNCHANGED <<loop_i, inflight, offvars, sockvars, codvars, convars>>

\* RAISE_ERRNO(getaddrinfo(host, NULL, &hints, &ai)): an error code, or 0
\* and a list for ai to point at.
OffGetaddrinfo ==
    \E ret \in IssueResults :
        /\ pc = "resolve"
        /\ IF RAISE_ERRNO(ret)
             THEN /\ pc' = "done"
                  /\ outcome' = [kind |-> "raised", err |-> -ret, result |-> <<>>]
                  /\ glog' = Append(glog, <<"getaddrinfo", ret, <<>> >>)
                  /\ UNCHANGED offvars
             ELSE \E l \in AiLists(family) :
                  /\ pc' = "walk"
                  /\ ai_list' = l
                  /\ ai' = 1
                  /\ glog' = Append(glog, <<"getaddrinfo", ret, l>>)
                  /\ UNCHANGED outcome
        /\ UNCHANGED <<family, loop_i, state, inflight, sockvars, codvars, convars>>

\* One pass of the do-while: the body appends the 5-tuple of *ai (the
\* allocation raises MemoryError when the heap is full), then the test
\* ai->ai_next != NULL. Nothing assigns to ai.
OffWalk ==
    /\ pc = "walk"
    /\ IF Len(state.result) >= MaxHeap
         THEN /\ pc' = "done"
              /\ outcome' = [kind |-> "MemoryError", err |-> 0, result |-> <<>>]
              /\ UNCHANGED state
         ELSE /\ state' = [state EXCEPT !.result =
                               Append(@, ai_record(ai_list[ai], state.port))]
              /\ pc' = IF ai_next(ai_list, ai) # 0 THEN "walk" ELSE "free"
              /\ UNCHANGED outcome
    /\ UNCHANGED <<family, loop_i, inflight, glog, offvars, sockvars, codvars, convars>>

\* freeaddrinfo(ai); return state.result.
OffReturn ==
    /\ pc = "free"
    /\ pc' = "done"
    /\ ai' = 0
    /\ ai_list' = <<>>
    /\ outcome' = [kind |-> "returned", err |-> 0, result |-> state.result]
    /\ UNCHANGED <<family, loop_i, state, inflight, glog, sockvars, codvars, convars>>

\* The call is over: its locals are gone (a list it did not free is lost).
OffDiscard ==
    /\ pc = "done"
    /\ pc' = "idle"
    /\ family' = 0
    /\ state' = [result |-> <<>>, sem |-> 0, port |-> 0, status |-> 0]
    /\ glog' = <<>>
    /\ outcome' = NoOutcome
    /\ ai' = 0
    /\ ai_list' = <<>>
    /\ UNCHANGED <<loop_i, inflight, sockvars, codvars, convars>>

InitOff ==
    /\ ai = 0
    /\ ai_list = <<>>

NextOffload ==
    \/ OffCall
    \/ OffGetaddrinfo
    \/ OffWalk
    \/ OffReturn
    \/ OffDiscard

\* ------------------------------------------------ the codec on its own
\* An address tuple is encoded for a handle of some family by
\* parse_inet_addr() and the record is decoded by format_inet_addr() with
\* the tuple's port.
CodecFamilies == {AF_INET, AF_INET6}
CodecPorts == {80, 8080}
CodecTexts == {"1.2.3.4", "01.2.3.4", "10.0.0.1", "::1", "0::1", "fe80::2", "nohost"}
CodecFlows == {0, 7}
CodecScopes == {0, 3}

\* The tuples a caller passes: 2-tuples and 4-tuples.
CodecTuples ==
    {<<t, p>> : t \in CodecTexts, p \in CodecPorts}
    \cup {<<t, p, f, sc>> : t \in CodecTexts, p \in CodecPorts,
                            f \in CodecFlows, sc \in CodecScopes}

CodecIdle ==
    [pc |-> "idle", family |-> 0, addr_in |-> <<>>, exc |-> "none", err |-> 0,
     sockaddr |-> <<>>, port |-> 0, out |-> <<>>]

\* parse_inet_addr(socket, addr_in, &sockaddr) into the caller's record,
\* a local that was not initialised: junk is what its scope id held.
CodecParse ==
    \E fam \in CodecFamilies, addr \in CodecTuples, junk \in CodecScopes :
        /\ codec.pc = "idle"
        /\ LET p == parse_inet_addr([family |-> fam], addr, junk)
           IN  codec' = [pc |-> IF p.exc = "none" THEN "encoded" ELSE "raised",
                         family |-> fam, addr_in |-> addr,
                         exc |-> p.exc, err |-> p.err,
                         sockaddr |-> p.sockaddr, port |-> 0, out |-> <<>>]
        /\ UNCHANGED <<sockvars, gaivars, offvars, convars>>

\* format_inet_addr(&sockaddr, port) with a port of the caller's: the
\* tuple's port again, or another.
CodecFormat ==
    \E port \in CodecPorts :
        /\ codec.pc = "encoded"
        /\ codec' = [codec EXCEPT !.pc = "decoded",
                                  !.port = port,
                                  !.out = format_inet_addr(codec.sockaddr, port)]
        /\ UNCHANGED <<sockvars, gaivars, offvars, convars>>

\* The record and the tuples are dropped.
CodecDrop ==
    /\ codec.pc \in {"decoded", "raised"}
    /\ codec' = CodecIdle
    /\ UNCHANGED <<sockvars, gaivars, offvars, convars>>

InitCodec == codec = CodecIdle

NextCodec ==
    \/ CodecParse
    \/ CodecFormat
    \/ CodecDrop

\* ------------------------------------------- console input (zephyr_getchar.c)
BufBits == 2        \* the ring buffer has 2^BufBits slots (2^8 in the source)
MaxChars == 5       \* characters the hook stores in one run

\* UART_BUFSIZE, a power of two: 256 in the source, where the indices are
\* uint8_t and wrap as the mask does.
UART_BUFSIZE == 2 ^ BufBits
UINT8 == 256
ENODEV == 19
\* The characters the UART delivers: ctrl-C and two others.
ConsoleChars == {3, 97, 98}
\* mp_interrupt_char: -1 (none) or ctrl-C.
InterruptChars == {-1, 3}

\* x & (UART_BUFSIZE - 1)
BufMask(x) == x % UART_BUFSIZE

\* The statics of zephyr_getchar.c as one record.
UartState ==
    [ringbuf |-> uart_ringbuf, i_get |-> i_get, i_put |-> i_put,
     i_size |-> i_size, sem |-> uart_sem]

\* console_irq_input_hook() as it would be without the test for a full
\* buffer.
console_irq_input_hook_no_full_test(st, ch, ic) ==
    LET i_next == BufMask(st.i_put + 1)
    IN  IF ch = ic
            THEN [st |-> st, sched |-> TRUE, stored |-> FALSE]
            ELSE [st |-> [st EXCEPT !.ringbuf[st.i_put] = ch,
                                    !.i_put = i_next,
                                    !.i_size = (@ + 1) % UINT8,
                                    !.sem = k_sem_give(@)],
                  sched |-> FALSE, stored |-> TRUE]

\* console_irq_input_hook() as it would be if the interrupt character were
\* looked at before the test for a full buffer.
console_irq_input_hook_intr_first(st, ch, ic) ==
    LET i_next == BufMask(st.i_put + 1)
    IN  IF ch = ic
            THEN [st |-> st, sched |-> TRUE, stored |-> FALSE]
        ELSE IF i_next = st.i_get
            THEN [st |-> st, sched |-> FALSE, stored |-> FALSE]
            ELSE [st |-> [st EXCEPT !.ringbuf[st.i_put] = ch,
                                    !.i_put = i_next,
                                    !.i_size = (@ + 1) % UINT8,
                                    !.sem = k_sem_give(@)],
                  sched |-> FALSE, stored |-> TRUE]

\* console_irq_input_hook(ch) on the statics st with the interrupt
\* character ic: a full buffer drops the character; the interrupt
\* character schedules a keyboard interrupt and is not stored; any other
\* is stored and the semaphore given. sched: mp_sched_keyboard_interrupt()
\* was called.
console_irq_input_hook(st, ch, ic) ==
    LET i_next == BufMask(st.i_put + 1)
    IN  IF i_next = st.i_get
            THEN [st |-> st, sched |-> FALSE, stored |-> FALSE]
        ELSE IF ch = ic
            THEN [st |-> st, sched |-> TRUE, stored |-> FALSE]
            ELSE [st |-> [st EXCEPT !.ringbuf[st.i_put] = ch,
                                    !.i_put = i_next,
                                    !.i_size = (@ + 1) % UINT8,
                                    !.sem = k_sem_give(@)],
                  sched |-> FALSE, stored |-> TRUE]

\* The part of zephyr_getchar_timeout() between irq_lock() and
\* irq_unlock(): c is the character read.
getchar_locked(st) ==
    [c |-> st.ringbuf[st.i_get],
     st |-> [st EXCEPT !.i_get = BufMask((@ + 1) % UINT8),
                       !.i_size = (@ - 1) % UINT8]]

\* The UART driver calls the hook with a character, in interrupt context:
\* the whole hook runs between two steps of the reading thread.
Hook ==
    \E ch \in ConsoleChars :
        LET r == console_irq_input_hook(UartState, ch, mp_interrupt_char)
        IN  /\ r.stored => Len(accepted) < MaxChars
            /\ uart_ringbuf' = r.st.ringbuf
            /\ i_get' = r.st.i_get
            /\ i_put' = r.st.i_put
            /\ i_size' = r.st.i_size
            /\ uart_sem' = r.st.sem
            /\ accepted' = IF r.stored THEN Append(accepted, ch) ELSE accepted
            /\ hook' = [called |-> TRUE, ch |-> ch, ic |-> mp_interrupt_char,
                        pre |-> UartState, post |-> r.st, sched |-> r.sched,
                        unread |-> Len(accepted) - Len(delivered)]
            /\ UNCHANGED <<mp_interrupt_char, getc, delivered,
                           sockvars, gaivars, offvars, codvars>>

\* zephyr_getchar_timeout(): mp_hal_wait_sem() has returned (the semaphore
\* was given, or the timeout ran out), then k_sem_take(K_NO_WAIT); without
\* the semaphore the call returns -ENODEV.
GetcharTake ==
    /\ getc.pc = "idle"
    /\ IF uart_sem > 0
         THEN /\ uart_sem' = uart_sem - 1
              /\ getc' = [pc |-> "taken", ret |-> 0, c |-> 0]
         ELSE /\ getc' = [pc |-> "idle", ret |-> -ENODEV, c |-> 0]
              /\ UNCHANGED uart_sem
    /\ UNCHANGED <<uart_ringbuf, i_get, i_put, i_size, mp_interrupt_char,
                   accepted, delivered, hook, sockvars, gaivars, offvars, codvars>>

\* zephyr_getchar_timeout(): the read with interrupts locked, and return 0.
GetcharRead ==
    /\ getc.pc = "taken"
    /\ LET r == getchar_locked(UartState)
       IN  /\ i_get' = r.st.i_get
           /\ i_size' = r.st.i_size
           /\ getc' = [pc |-> "idle", ret |-> 0, c |-> r.c]
           /\ delivered' = Append(delivered, r.c)
    /\ UNCHANGED <<uart_ringbuf, i_put, uart_sem, mp_interrupt_char,
                   accepted, hook, sockvars, gaivars, offvars, codvars>>

\* The interpreter sets or clears its interrupt character.
SetInterruptChar ==
    \E ic \in InterruptChars \ {mp_interrupt_char} :
        /\ mp_interrupt_char' = ic
        /\ UNCHANGED <<uart_ringbuf, i_get, i_put, i_size, uart_sem,
                       getc, accepted, delivered, hook,
                       sockvars, gaivars, offvars, codvars>>

\* The statics are zero; zephyr_getchar_init() makes the semaphore with
\* count 0.
InitConsole ==
    /\ uart_ringbuf = [k \in 0..(UART_BUFSIZE - 1) |-> 0]
    /\ i_get = 0
    /\ i_put = 0
    /\ i_size = 0
    /\ uart_sem = 0
    /\ mp_interrupt_char = -1
    /\ getc = [pc |-> "idle", ret |-> 0, c |-> 0]
    /\ accepted = <<>>
    /\ delivered = <<>>
    /\ hook = [called |-> FALSE, ch |-> 0, ic |-> -1,
               pre |-> UartState, post |-> UartState, sched |-> FALSE,
               unread |-> 0]

NextConsole ==
    \/ Hook
    \/ GetcharTake
    \/ GetcharRead
    \/ SetInterruptChar

\* ---------------------------------------------------------- specifications
Init == InitSock /\ InitGai /\ InitOff /\ InitCodec /\ InitConsole

Next == NextSock

\* The socket objects and the native layer.
Spec == Init /\ [][Next]_vars

\* getaddrinfo and the resolver's thread.
GaiSpec == Init /\ [][NextGai]_vars

\* The same with the scheduling the claim of liveness assumes: the caller
\* runs when it can, and the resolver completes every pending sub-query.
GaiFairSpec == GaiSpec /\ WF_vars(GaiStep) /\ WF_vars(ResolverDone)

\* getaddrinfo of the offload build.
OffloadSpec == Init /\ [][NextOffload]_vars

\* The address codec.
CodecSpec == Init /\ [][NextCodec]_vars

\* The console input hook and the reading thread.
ConsoleSpec == Init /\ [][NextConsole]_vars

\* ------------------------------------------------------------- the claims
OpsOtherThanClose ==
    {"bind", "connect", "listen", "accept", "send", "recv", "setblocking",
     "read", "write"}

CloseOps == {"close", "ioctl_close", "finalise"}

\* C1: every operation other than close on a handle whose descriptor is the
\* closed sentinel fails with EBADF and makes no native call.
C1_ClosedHandleFailsEBADF ==
    (last.op \in OpsOtherThanClose /\ last.pre.ctx = CLOSED)
        => (last.exc = "OSError" /\ last.err = EBADF /\ last.calls = <<>>)

\* C9: a close of a handle that is already closed (by close(), by the
\* stream close request or by finalisation) makes no native call, does not
\* raise and leaves the descriptor closed; no handle issues a native close
\* again once one has succeeded.
C9_CloseIdempotent ==
    /\ (last.op \in CloseOps /\ last.pre.ctx = CLOSED)
          => (last.calls = <<>> /\ last.exc = "none" /\ last.ctx = CLOSED
              /\ sockets[last.h].ctx = CLOSED)
    /\ \A h \in Handles : closes[h] <= 1

\* C9 witness: close() called on a handle that an earlier close had closed.
C9_Witness ==
    /\ last.op = "close"
    /\ last.pre.alive /\ last.pre.ctx = CLOSED
    /\ closes[last.h] = 1

\* C10: a close of a live handle issues the native close on its descriptor;
\* when that fails the close raises OSError(errno) and the handle keeps the
\* descriptor, and only when it succeeds is the descriptor set to the
\* closed sentinel.
C10_FailedCloseKeepsDescriptor ==
    (last.op \in {"close", "ioctl_close"} /\ last.pre.ctx # CLOSED)
        => /\ last.calls = << <<"zsock_close", last.pre.ctx>> >>
           /\ IF last.nat[1].rc = -1
                THEN /\ last.exc = "OSError" /\ last.err = last.nat[1].errno
                     /\ sockets[last.h].ctx = last.pre.ctx
                ELSE /\ last.exc = "none"
                     /\ sockets[last.h].ctx = CLOSED

\* C10 witness: close() on a live handle whose native close failed.
C10_Witness ==
    /\ last.op = "close"
    /\ last.pre.ctx # CLOSED
    /\ last.nat # <<>> /\ last.nat[1].rc = -1
    /\ sockets[last.h].ctx = last.pre.ctx

\* Events of the current getaddrinfo call.
Dones == SelectSeq(glog, LAMBDA e : e[1] = "cb_done")
Issues == SelectSeq(glog, LAMBDA e : e[1] = "issue")
IssueTypes == [k \in 1..Len(Issues) |-> Issues[k][2]]
HintZero == glog # <<>> /\ glog[1][2] = 3 /\ glog[1][3] = AF_UNSPEC
CallPort == glog[1][4]
IsFailure(status) == status # DNS_EAI_ALLDONE

\* The record getaddrinfo returns for an address of a sub-query of this type.
ExpectedRecord(type, port) ==
    IF type = DNS_QUERY_TYPE_A
        THEN <<AF_INET, SOCK_STREAM, IPPROTO_TCP, "", <<"1.2.3.4", port>> >>
        ELSE <<AF_INET6, SOCK_STREAM, IPPROTO_TCP, "", <<"::1", port, 0, 0>> >>

\* A bind or connect on a live handle that failed: the address did not
\* encode (no native call was made) or the native call returned -1.
FailedAddrOp(r) ==
    /\ r.op \in {"bind", "connect"}
    /\ r.pre.ctx # CLOSED
    /\ (r.calls = <<>> \/ r.nat[1].rc = -1)

\* Operations that call the native layer whenever the handle is live.
NativeOps ==
    {"listen", "accept", "send", "recv", "read", "write", "setblocking", "close"}

\* C11: a bind or connect that fails (the address does not encode, or the
\* native call returns an error) raises and leaves the handle's descriptor,
\* family and state tag as they were; the operation that follows on the
\* same handle reaches the native layer with that descriptor.
C11_FailedBindConnectKeepsHandle ==
    [][/\ FailedAddrOp(last')
            => /\ last'.exc # "none"
               /\ sockets'[last'.h] = last'.pre
       /\ (FailedAddrOp(last) /\ last'.h = last.h /\ last'.op \in NativeOps)
            => /\ last'.calls # <<>>
               /\ last'.calls[1][2] = last.pre.ctx]_vars

\* C11 witness: a connect whose native call failed, on a handle that is
\* still live with the same descriptor.
C11_Witness ==
    /\ last.op = "connect"
    /\ last.calls # <<>> /\ last.nat[1].rc = -1
    /\ sockets[last.h].ctx = last.pre.ctx
    /\ sockets[last.h].ctx \in nat_open

\* C12: when the native accept call returns an error, accept() raises
\* OSError with the native errno and returns no handle.
C12_AcceptFailureRaises ==
    (last.op = "accept" /\ last.pre.ctx # CLOSED /\ last.nat[1].rc = -1)
        => /\ last.exc = "OSError"
           /\ last.err = last.nat[1].errno
           /\ last.h2 = 0

\* C13: an accept() on a live handle whose native call succeeded returns
\* (new handle, None); the new handle is a fresh object in STATE_NEW that
\* holds the accepted descriptor, which differs from the listening
\* handle's; the listening handle's descriptor, family and state tag are
\* as before.
C13_AcceptReturnsNewHandle ==
    (last.op = "accept" /\ last.pre.ctx # CLOSED /\ last.nat[1].rc # -1)
        => /\ last.exc = "none"
           /\ last.ret = <<last.nat[1].rc, None>>
           /\ last.h2 \in Handles /\ last.h2 # last.h
           /\ sockets[last.h2].alive
           /\ sockets[last.h2].ctx = last.nat[1].rc
           /\ sockets[last.h2].state = STATE_NEW
           /\ sockets[last.h2].ctx # sockets[last.h].ctx
           /\ sockets[last.h] = last.pre

\* C13 witness: an accept() that returned a handle holding a descriptor the
\* native layer opened for it.
C13_Witness ==
    /\ last.op = "accept"
    /\ last.exc = "none"
    /\ last.h2 \in Handles
    /\ sockets[last.h2].ctx \in nat_open
    /\ sockets[last.h].ctx \in nat_open

\* The list the native getaddrinfo() gave the current call (offload build).
NativeList ==
    IF \E k \in 1..Len(glog) : glog[k][1] = "getaddrinfo"
        THEN glog[CHOOSE k \in 1..Len(glog) : glog[k][1] = "getaddrinfo"][3]
        ELSE <<>>

\* One record per node of the native list, in list order.
RecordsOfList(l, port) == [k \in 1..Len(l) |-> ai_record(l[k], port)]

\* C14: on the offload build, for a finite non-empty list from the native
\* getaddrinfo() the call ends by returning exactly one record per node of
\* the list, in list order; while it walks the list what it has collected
\* is a prefix of those records.
C14_OffloadOneRecordPerNode ==
    NativeList # <<>>
        => LET want == RecordsOfList(NativeList, CallPort)
           IN  /\ Len(state.result) <= Len(want)
               /\ state.result = SubSeq(want, 1, Len(state.result))
               /\ pc = "done"
                    => outcome = [kind |-> "returned", err |-> 0, result |-> want]

\* C15: a sub-query is in flight only while the caller is blocked in the
\* take, so the caller reads the query value (status, result) and returns
\* or raises only when none is pending; and while one is in flight every
\* change of the query value is made by the resolver's callback.
C15_QueryValueOwnership ==
    /\ [](inflight # {} => pc = "wait")
    /\ [][(inflight # {} /\ state' # state)
            => /\ pc' = pc
               /\ Len(glog') = Len(glog) + 1
               /\ glog'[Len(glog')][1] \in {"cb_addr", "cb_done"}]_vars

\* C15 witness: a call with hint 0 returned the addresses of both
\* sub-queries, and nothing is pending.
C15_Witness ==
    /\ pc = "done"
    /\ outcome.kind = "returned"
    /\ Len(outcome.result) = 2
    /\ inflight = {}

\* The callbacks of the current call that carried an address, in order.
AddrCallbacks == SelectSeq(glog, LAMBDA e : e[1] = "cb_addr")

\* One record per such callback, in callback order.
RecordsOfCallbacks ==
    [k \in 1..Len(AddrCallbacks) |->
        ExpectedRecord(Issues[AddrCallbacks[k][2]][2], CallPort)]

\* C16: the sequence the call collects, and returns, holds exactly one
\* record per callback that carried an address, in callback order, the
\* first sub-query's before the second's; each record is (family the
\* resolver reported, SOCK_STREAM, IPPROTO_TCP, "", address tuple with the
\* caller's port).
C16_OneRecordPerAddressCallback ==
    glog # <<>>
        => /\ state.result = RecordsOfCallbacks
           /\ \A k \in 1..Len(state.result) : Len(state.result[k]) = 5
           /\ \A j, k \in 1..Len(AddrCallbacks) :
                 j < k => AddrCallbacks[j][2] <= AddrCallbacks[k][2]
           /\ outcome.kind = "returned" => outcome.result = RecordsOfCallbacks

\* C16 witness: a call returned an IPv4 record followed by an IPv6 record.
C16_Witness ==
    /\ outcome.kind = "returned"
    /\ Len(outcome.result) = 2
    /\ outcome.result[1][1] = AF_INET
    /\ outcome.result[2][1] = AF_INET6
    /\ outcome.result[2][5][2] = CallPort

\* C17: for every family and every tuple parse_inet_addr() accepts for it,
\* format_inet_addr() of the record with the tuple's port gives back a tuple
\* equal to the input in every element.
C17_CodecRoundTrip ==
    (codec.pc = "decoded" /\ codec.port = codec.addr_in[2])
        => codec.out = codec.addr_in

\* C24: the tuple format_inet_addr() builds has 2 elements for an AF_INET
\* record and 4 for an AF_INET6 record; its second element is the port the
\* caller passed, whatever the record's port field holds; in a 4-tuple the
\* third element is 0 and the fourth is the record's scope id.
C24_DecodeArityAndFields ==
    codec.pc = "decoded"
        => /\ codec.sockaddr.sa_family = AF_INET => Len(codec.out) = 2
           /\ codec.sockaddr.sa_family = AF_INET6 => Len(codec.out) = 4
           /\ codec.out[2] = codec.port
           /\ Len(codec.out) = 4
                => /\ codec.out[3] = 0
                   /\ codec.out[4] = codec.sockaddr.sin6_scope_id

\* C24 witness: an AF_INET6 record with a non-zero scope id, encoded from a
\* tuple with flow-info 7 and port 80, decoded with port 8080.
C24_Witness ==
    /\ codec.pc = "decoded"
    /\ codec.sockaddr.sa_family = AF_INET6
    /\ codec.sockaddr.sin6_scope_id = 3
    /\ codec.addr_in[2] = 80 /\ codec.addr_in[3] = 7
    /\ codec.port = 8080
    /\ Len(codec.out) = 4

\* C18: recv(n) on a live handle whose native read gave the count k
\* returns a bytes object of length k, with 0 <= k <= n; for k = 0 it is
\* the empty bytes object and nothing is raised; the descriptor stays live.
C18_RecvReturnsBytesRead ==
    (last.op = "recv" /\ last.pre.ctx # CLOSED /\ last.nat[1].rc # -1)
        => /\ last.exc = "none"
           /\ Len(last.ret) = 1
           /\ Len(last.ret[1]) = last.nat[1].rc
           /\ 0 <= last.nat[1].rc /\ last.nat[1].rc <= last.calls[1][3]
           /\ last.nat[1].rc = 0 => last.ret = << <<>> >>
           /\ sockets[last.h].ctx = last.pre.ctx
           /\ sockets[last.h].ctx # CLOSED

\* C18 witness: a recv on a live handle at the peer's orderly close.
C18_Witness ==
    /\ last.op = "recv"
    /\ last.pre.ctx # CLOSED
    /\ last.nat # <<>> /\ last.nat[1].rc = 0
    /\ last.ret = << <<>> >>

\* C19: when the native send or receive call of send, recv or the stream
\* write or read on a live handle fails, the operation reports OSError with
\* exactly the native errno, gives no count and no data, and the handle is
\* as before.
C19_SendRecvFailureReportsErrno ==
    (/\ last.op \in {"send", "recv", "write", "read"}
     /\ last.pre.ctx # CLOSED
     /\ last.nat[1].rc = -1)
        => /\ last.exc = "OSError"
           /\ last.err = last.nat[1].errno
           /\ last.ret = <<>>
           /\ sockets[last.h] = last.pre

\* C19 witness: a send on a live handle that the native layer refused
\* with EAGAIN.
C19_Witness ==
    /\ last.op = "send"
    /\ last.pre.ctx # CLOSED
    /\ last.nat # <<>> /\ last.nat[1] = [rc |-> -1, errno |-> EAGAIN]
    /\ last.err = EAGAIN

\* C20: when a native flag call of setblocking fails, setblocking raises
\* OSError with the native errno of that call; when the reading of the
\* flags fails the flags are not written.
C20_SetblockingFailureErrno ==
    (/\ last.op = "setblocking"
     /\ \E k \in 1..Len(last.nat) : last.nat[k].rc = -1)
        => /\ last.exc = "OSError"
           /\ last.err = last.nat[Len(last.nat)].errno
           /\ last.nat[1].rc = -1 => Len(last.calls) = 1

\* The non-blocking bit of a flags word.
NonBlockBit(x) == (x \div O_NONBLOCK) % 2

\* C21: a setblocking(flag) that succeeded leaves the descriptor with the
\* flags it read, changed in the non-blocking bit alone: the bit is clear
\* iff flag is true, every other bit is as it was read, and the same
\* setblocking(flag) applied to the new flags writes the same flags again.
C21_SetblockingChangesOnlyNonblock ==
    (last.op = "setblocking" /\ last.exc = "none")
        => LET old == last.nat[1].rc
               new == nat_flags[last.pre.ctx]
               ok == [rc |-> 0, errno |-> 0]
               again == socket_setblocking(sockets[last.h], last.flag,
                                           [rc |-> new, errno |-> 0], ok)
           IN  /\ last.calls[2] = <<"zsock_fcntl", last.pre.ctx, "F_SETFL", new>>
               /\ (NonBlockBit(new) = 0) <=> last.flag
               /\ new % O_NONBLOCK = old % O_NONBLOCK
               /\ new \div (2 * O_NONBLOCK) = old \div (2 * O_NONBLOCK)
               /\ again.calls[2][4] = new

\* C21 witness: setblocking(True) succeeded on a descriptor that was
\* non-blocking and has its access mode bit set.
C21_Witness ==
    /\ last.op = "setblocking" /\ last.exc = "none"
    /\ last.flag
    /\ last.nat[1].rc = O_RDWR + O_NONBLOCK
    /\ nat_flags[last.pre.ctx] = O_RDWR

\* The takes of the current call, and the family the call works with: the
\* hint, AF_INET when it is omitted.
Takes == SelectSeq(glog, LAMBDA e : e[1] = "take")
CallFamily == IF glog[1][2] = 2 THEN AF_INET ELSE glog[1][3]

C23_SocketCreationProtocol ==
    last.op = "socket"
        => LET fam == last.args[1]
               socktype == last.args[2]
               proto == last.args[3]
               want == IF proto # PROTO_AUTO THEN proto
                       ELSE IF socktype = SOCK_STREAM THEN IPPROTO_TCP
                       ELSE IPPROTO_UDP
           IN  /\ last.calls = << <<"zsock_socket", fam, socktype, want>> >>
               /\ last.nat[1].rc # -1
                    => /\ last.exc = "none"
                       /\ last.h2 \in Handles
                       /\ sockets[last.h2] =
                            [alive |-> TRUE, ctx |-> last.nat[1].rc,
                             state |-> STATE_NEW, family |-> fam]
                       /\ sockets[last.h2].ctx # CLOSED
                       /\ sockets[last.h2].ctx \in nat_open

\* C23 witness: a stream socket created with the protocol given as UDP.
C23_Witness ==
    /\ last.op = "socket" /\ last.exc = "none"
    /\ last.args = <<AF_INET6, SOCK_STREAM, IPPROTO_UDP>>
    /\ last.calls[1][4] = IPPROTO_UDP
    /\ sockets[last.h2].family = AF_INET6

\* What a completion stores for a status.
StoredStatus(status) == IF status = DNS_EAI_ALLDONE THEN 0 ELSE status

\* C25: the status field holds what the most recent completion stored (0
\* for all-done, any other status as it is), each completion replacing
\* the one before; so a call with hint 0 whose two sub-queries completed
\* raises iff no address was collected and the second one's status is not
\* 0, with that status, and returns the empty list when the first failed
\* and the second completed all-done without an address.
C25_LastCompletionDecides ==
    /\ Len(Dones) >= 1 => state.status = StoredStatus(Dones[Len(Dones)][5])
    /\ (pc = "done" /\ HintZero /\ Len(Dones) = 2)
          => /\ (outcome.kind = "raised")
                    <=> (AddrCallbacks = <<>> /\ StoredStatus(Dones[2][5]) # 0)
             /\ outcome.kind = "raised" => outcome.err = Dones[2][5]
             /\ (/\ IsFailure(Dones[1][5])
                 /\ Dones[2][5] = DNS_EAI_ALLDONE
                 /\ AddrCallbacks = <<>>)
                    => outcome = [kind |-> "returned", err |-> 0, result |-> <<>>]

\* C25 witness: the first sub-query timed out, the second completed
\* all-done with no address, and the call returned the empty list.
C25_Witness ==
    /\ pc = "done" /\ HintZero /\ Len(Dones) = 2
    /\ Dones[1][5] = DNS_EAI_CANCELED
    /\ Dones[2][5] = DNS_EAI_ALLDONE
    /\ AddrCallbacks = <<>>
    /\ outcome.kind = "returned" /\ outcome.result = <<>>

\* Handles that hold a descriptor.
LiveHandles == {h \in Handles : sockets[h].alive /\ sockets[h].ctx # CLOSED}

\* C26: no two handles hold the same live descriptor; makefile gives the
\* handle itself, makes no native call and changes nothing.
C26_DescriptorsNotShared ==
    /\ \A h, g \in LiveHandles : h # g => sockets[h].ctx # sockets[g].ctx
    /\ last.op = "makefile"
          => /\ last.ret = <<last.h>>
             /\ last.calls = <<>>
             /\ sockets[last.h] = last.pre

\* A handle holds a descriptor the native layer does not have open: its
\* close failed and the native layer released the descriptor all the same.
C26_StaleDescriptor ==
    \E h \in LiveHandles : sockets[h].ctx \notin nat_open

\* Two handles hold one descriptor, which the native layer has open: it
\* gave the number out again while the first handle still held it.
C26_SharedDescriptor ==
    \E h, g \in LiveHandles :
        /\ h # g
        /\ sockets[h].ctx = sockets[g].ctx
        /\ sockets[h].ctx \in nat_open

StateTags == {STATE_NEW, STATE_CONNECTING, STATE_CONNECTED, STATE_PEER_CLOSED}

\* The handle h as it would be with the state tag t.
Tagged(h, t) == [sockets[h] EXCEPT !.state = t]

\* C27: the state tag of every handle is STATE_NEW in every reachable
\* state, the last operation left the tag of its handle as it was, and what
\* the operations do with a handle is the same for every value the tag
\* could have: only the descriptor decides.
C27_StateTagAlwaysNew ==
    /\ \A h \in Handles : sockets[h].state = STATE_NEW
    /\ last.pre.state = STATE_NEW
    /\ \A h \in Alive, t \in StateTags :
          LET ok == [rc |-> 0, errno |-> 0]
              bad == [rc |-> -1, errno |-> EIO]
              one == [rc |-> MaxLen, errno |-> 0]
          IN  /\ socket_check_closed(Tagged(h, t)) = socket_check_closed(sockets[h])
              /\ \A res \in {ok, bad} :
                    /\ socket_connect(Tagged(h, t), <<"1.2.3.4", 80>>, 0, res)
                         = socket_connect(sockets[h], <<"1.2.3.4", 80>>, 0, res)
                    /\ socket_listen(Tagged(h, t), 1, 1, res)
                         = socket_listen(sockets[h], 1, 1, res)
                    /\ socket_accept(Tagged(h, t), res) = socket_accept(sockets[h], res)
                    /\ sock_ioctl(Tagged(h, t), MP_STREAM_CLOSE, res)
                         = sock_ioctl(sockets[h], MP_STREAM_CLOSE, res)
              /\ \A res \in {ok, bad, one} :
                    /\ socket_send(Tagged(h, t), MaxLen, res)
                         = socket_send(sockets[h], MaxLen, res)
                    /\ socket_recv(Tagged(h, t), MaxLen, res)
                         = socket_recv(sockets[h], MaxLen, res)

\* C27 witness: a live handle was closed by a close that succeeded; its
\* tag is STATE_NEW as before.
C27_Witness ==
    /\ last.op = "close"
    /\ last.pre.ctx # CLOSED
    /\ last.exc = "none"
    /\ sockets[last.h].alive
    /\ sockets[last.h].ctx = CLOSED
    /\ sockets[last.h].state = STATE_NEW

\* The characters the hook has stored and the reader has not yet read.
Unread == Len(accepted) - Len(delivered)

\* The reader holds a semaphore count it has not yet spent on a read.
TakenCount == IF getc.pc = "taken" THEN 1 ELSE 0

\* C28: under every interleaving of the input hook and
\* zephyr_getchar_timeout(), the characters the reader has been given are
\* the first of those the hook stored, each once and in the order stored;
\* the semaphore count never exceeds the number of unread characters, and
\* with the count the reader holds it equals that number, so no stored
\* character is left without a count; the slots from i_get on hold the
\* unread characters in order (none was overwritten), and a reader that
\* took the semaphore reads the oldest unread character; i_size and the
\* distance between the indices are the number unread.
C28_RingBufferDeliversInOrder ==
    /\ Len(delivered) <= Len(accepted)
    /\ delivered = SubSeq(accepted, 1, Len(delivered))
    /\ uart_sem <= Unread
    /\ uart_sem + TakenCount = Unread
    /\ i_size = Unread
    /\ BufMask(i_put - i_get) = Unread
    /\ \A k \in 1..Unread :
          uart_ringbuf[BufMask(i_get + k - 1)] = accepted[Len(delivered) + k]
    /\ getc.pc = "taken" =>
          /\ Unread >= 1
          /\ getchar_locked(UartState).c = accepted[Len(delivered) + 1]

\* C28 witness: the reader has read more characters than the buffer has
\* slots, all that the hook stored, so the indices have wrapped.
C28_Witness ==
    /\ Len(delivered) > UART_BUFSIZE
    /\ delivered = accepted
    /\ getc.pc = "idle"
    /\ getc.c = accepted[Len(accepted)]

\* The buffer was full when the hook was last called.
HookFull == hook.unread = UART_BUFSIZE - 1

\* C29: in the last call of the hook, the interrupt character left the
\* ring buffer, the indices, the count and the semaphore as they were; a
\* keyboard interrupt was scheduled exactly when the character was the
\* interrupt character and the buffer was not full; with the buffer full
\* (UART_BUFSIZE - 1 unread characters, 255 in the source) any character
\* left everything as it was and scheduled nothing.
C29_InterruptCharAndFullBuffer ==
    hook.called =>
        /\ hook.ch = hook.ic => hook.post = hook.pre
        /\ hook.sched <=> (hook.ch = hook.ic /\ ~HookFull)
        /\ HookFull => (hook.post = hook.pre /\ ~hook.sched)
        /\ HookFull <=> BufMask(hook.pre.i_put + 1) = hook.pre.i_get
        /\ (~HookFull /\ hook.ch # hook.ic) =>
              /\ hook.post.sem = hook.pre.sem + 1
              /\ hook.post.ringbuf[hook.pre.i_put] = hook.ch

\* C29 witness: the interrupt character arrived at a full buffer and was
\* dropped.
C29_Witness ==
    /\ hook.called
    /\ hook.ch = hook.ic
    /\ HookFull
    /\ ~hook.sched
    /\ Unread = UART_BUFSIZE - 1

\* The interrupt character arrived at a buffer that was not full and
\* scheduled a keyboard interrupt.
C29_Scheduled ==
    /\ hook.called
    /\ hook.ch = hook.ic
    /\ hook.sched
    /\ hook.unread > 0

\* C2: with the caller scheduled and every issued sub-query completed by
\* the resolver, a getaddrinfo call that has started returns or raises.
C2_GetaddrinfoTerminates == (pc \in {"loop", "wait", "check"}) ~> (pc = "done")

\* C2 witness: a call that waited for a sub-query which timed out, and ended.
C2_Witness ==
    /\ pc = "done"
    /\ \E k \in 1..Len(Dones) : Dones[k][5] = DNS_EAI_CANCELED
    /\ \E k \in 1..Len(glog) : glog[k][1] = "take"

\* C3: a callback with an address leaves the semaphore alone, a completion
\* callback raises it by exactly one whatever its status; the count never
\* exceeds 1 and is 0 whenever a sub-query is issued.
C3_SemaphoreOncePerSubquery ==
    /\ \A k \in 1..Len(glog) :
          /\ glog[k][1] = "cb_addr" => glog[k][4] = glog[k][3]
          /\ glog[k][1] = "cb_done" => glog[k][4] = glog[k][3] + 1
          /\ glog[k][1] = "issue" => glog[k][4] = 0
    /\ state.sem <= 1

\* C3 witness: a second sub-query was issued after a first one that
\* reported an address and then timed out.
C3_Witness ==
    /\ Len(Issues) = 2
    /\ \E j, k \in 1..Len(glog) :
          /\ j < k
          /\ glog[j][1] = "cb_addr"
          /\ glog[k][1] = "cb_done" /\ glog[k][5] = DNS_EAI_CANCELED

\* C4: at most one sub-query is in flight; a second sub-query is issued only
\* after the first one's completion callback and the caller's take, and no
\* callback of the first sub-query comes after it.
C4_SubqueriesSequential ==
    /\ Cardinality(inflight) <= 1
    /\ \A k \in 1..Len(glog) :
          (glog[k][1] = "issue" /\ \E i \in 1..(k - 1) : glog[i][1] = "issue")
            => /\ \E j, m \in 1..(k - 1) :
                    /\ j < m
                    /\ glog[j][1] = "cb_done" /\ glog[j][2] = 1
                    /\ glog[m][1] = "take"
               /\ \A j \in (k + 1)..Len(glog) :
                    glog[j][1] \in {"cb_addr", "cb_done"} => glog[j][2] # 1

\* C4 witness: both sub-queries of a call were issued and completed.
C4_Witness ==
    /\ Len(Issues) = 2
    /\ Len(Dones) = 2
    /\ inflight = {}

\* C5: hint 0, one sub-query reported addresses and the other completed
\* with a failure status and none: the call returns exactly those addresses.
C5_PartialSuccessReturned ==
    (pc = "done" /\ HintZero /\ Len(Dones) = 2)
        => \A a, b \in {1, 2} :
              (a # b /\ Dones[a][6] > 0 /\ Dones[b][6] = 0 /\ IsFailure(Dones[b][5]))
                => /\ outcome.kind = "returned"
                   /\ outcome.result =
                        [k \in 1..Dones[a][6] |-> ExpectedRecord(Issues[a][2], CallPort)]

\* C5 witness: the first sub-query reported an address, the second failed.
C5_Witness ==
    /\ pc = "done" /\ HintZero /\ Len(Dones) = 2
    /\ Dones[1][6] > 0
    /\ Dones[2][6] = 0 /\ IsFailure(Dones[2][5])

\* C6: every sub-query of the call completed with a failure status and no
\* address was collected: the call raises OSError with the status of the
\* last completion.
C6_AllFailedRaisesLast ==
    (/\ pc = "done"
     /\ Len(Dones) >= 1
     /\ Len(Dones) = Len(Issues)
     /\ \A k \in 1..Len(Dones) : IsFailure(Dones[k][5]) /\ Dones[k][6] = 0)
        => /\ outcome.kind = "raised"
           /\ outcome.err = Dones[Len(Dones)][5]

\* C6 witness: two sub-queries failed with different statuses.
C6_Witness ==
    /\ pc = "done"
    /\ Len(Dones) = 2
    /\ IsFailure(Dones[1][5]) /\ IsFailure(Dones[2][5])
    /\ Dones[1][5] # Dones[2][5]
    /\ Dones[1][6] = 0 /\ Dones[2][6] = 0

\* C7: when the native call issuing a sub-query returns an error the call
\* raises OSError with that errno at once: nothing follows (no wait, no
\* further sub-query, no callback) and nothing is returned, whatever an
\* earlier sub-query collected.
C7_IssueErrorAborts ==
    \A k \in 1..Len(glog) :
        (glog[k][1] = "issue" /\ glog[k][3] < 0)
            => /\ k = Len(glog)
               /\ pc = "done"
               /\ outcome = [kind |-> "raised", err |-> -glog[k][3], result |-> <<>>]

\* C7 witness: the second issue failed after the first sub-query had
\* collected an address.
C7_Witness ==
    /\ Len(Issues) = 2
    /\ Issues[2][3] < 0
    /\ Len(state.result) > 0

\* C8 as stated: with hint 0 a call that finished without an issuing error
\* has issued exactly two sub-queries, AAAA first and A second.
C8_Original ==
    (pc = "done" /\ HintZero /\ \A k \in 1..Len(Issues) : Issues[k][3] = 0)
        => IssueTypes = <<DNS_QUERY_TYPE_AAAA, DNS_QUERY_TYPE_A>>

\* C8 amended: with hint 0 the sub-queries are issued A first and AAAA
\* second; a finished call has made both issuing calls unless the first of
\* them returned an error.
C8_OrderAThenAAAA ==
    HintZero
        => /\ \A k \in 1..Len(IssueTypes) :
                IssueTypes[k] = <<DNS_QUERY_TYPE_A, DNS_QUERY_TYPE_AAAA>>[k]
           /\ Len(IssueTypes) <= 2
           /\ (pc = "done" /\ Issues[1][3] = 0) => Len(IssueTypes) = 2

\* C8 witness: a finished call with hint 0 whose two sub-queries completed.
C8_Witness == pc = "done" /\ HintZero /\ Len(Dones) = 2

====
